---------------------------- MODULE Spec2Model ----------------------------
(***************************************************************************)
(* Model of the ONNX inference core (src/src/inference.rs, labels.rs,      *)
(* types.rs, constants.rs) and of the JNI entry points that reach it       *)
(* (src/src/lib.rs).                                                       *)
(*                                                                         *)
(* Host threads call the entry points concurrently.  Every step of a call  *)
(* that touches shared state (the file system, one of the four global      *)
(* mutexes) is one action; purely local code is folded into the step that  *)
(* follows it.  The execution engine and the image decoder are opaque: the *)
(* model draws their outcome nondeterministically.  JNI string and array   *)
(* marshalling is not modelled.                                            *)
(***************************************************************************)
EXTENDS Integers, Sequences, FiniteSets, TLC

\* ------------------------------------------------------------------ bounds
\* Total number of entry-point calls the host issues.
MaxCalls == 3
\* Longest probability vector and longest label text passed to a direct call.
MaxLen == 3
MaxText == 3

\* ------------------------------------------------------- program constants
TOP_K_PREDICTIONS == 5
MIN_CLASSIFICATION_CLASSES == 1000
\* labels.rs: `for i in labels.len()..1000`
FallbackTotal == 1000
\* Fixed-point unit standing for 1.0f32 in softmax.
FixedOne == 10000

Threads == {"t1", "t2"}

None == [tag |-> "None"]
Some(v) == [tag |-> "Some", val |-> v]

\* Result<T, InferenceError>
Ok(v) == [tag |-> "Ok", val |-> v]
Err(kind, msg) == [tag |-> "Err", kind |-> kind, msg |-> msg]
IsOk(r) == r.tag = "Ok"
IsErr(r) == r.tag = "Err"

Max2(a, b) == IF a >= b THEN a ELSE b
Min2(a, b) == IF a <= b THEN a ELSE b

\* --------------------------------------------------------------- errors.rs
\* impl fmt::Display for InferenceError: a fixed prefix per variant, then
\* the payload.
Display(e) ==
  LET prefix ==
        CASE e.kind = "ModelNotFound" -> "Model file not found: "
          [] e.kind = "InvalidImageData" -> "Invalid image data: "
          [] e.kind = "SessionCreationFailed" -> "Failed to create ONNX session: "
          [] e.kind = "ModelLoadingFailed" -> "Failed to load model: "
          [] e.kind = "InferenceFailed" -> "Inference execution failed: "
          [] e.kind = "OutputProcessingFailed" -> "Failed to process output: "
          [] e.kind = "LabelsLoadingFailed" -> "Failed to load labels: "
          [] e.kind = "MemoryError" -> "Memory allocation failed: "
  IN <<prefix, e.msg>>

\* ------------------------------------------------------------- file system
\* Three model files, two label files and a path where no file is.  What
\* a path holds is fixed; the environment can only delete it.
ModelPaths == {"a", "b", "z"}
LabelPaths == {"l1", "l0"}
Paths == ModelPaths \cup LabelPaths \cup {"nofile"}

\* The ONNX graph stored at a model path: declared inputs and the element
\* count of its first output.
GraphOf(p) ==
  CASE p = "a" -> [inputs |-> 1, outLen |-> MIN_CLASSIFICATION_CLASSES]
    [] p = "b" -> [inputs |-> 1, outLen |-> MIN_CLASSIFICATION_CLASSES - 1]
    [] p = "z" -> [inputs |-> 0, outLen |-> MIN_CLASSIFICATION_CLASSES]

\* Text of the label files, as characters.
TextOf(p) ==
  CASE p = "l1" -> <<"d", " ", "\n", " ", "\n", " ", "c", "\n">>
    [] p = "l0" -> <<"\n", " ", "\n">>

\* Paths the host passes to load_model and to the label loader.
ModelArgs == ModelPaths \cup {"l1"}
LabelArgs == LabelPaths \cup {"nofile"}
\* Files the environment may delete.
Removable == {"a"}
Images == {"jpeg", "junk"}
\* Elapsed milliseconds the clock reports for the three stages of one run:
\* <<preprocessing, inference, postprocessing>>.
Clock == {<<1, 2, 3>>, <<2, 1, 1>>}


\* --------------------------------------------------------------- labels.rs
\* constants.rs FALLBACK_LABELS, as characters.
FALLBACK_LABELS ==
  << <<"t","e","n","c","h">>,
     <<"g","o","l","d","f","i","s","h">>,
     <<"g","r","e","a","t"," ","w","h","i","t","e"," ","s","h","a","r","k">>,
     <<"t","i","g","e","r"," ","s","h","a","r","k">>,
     <<"h","a","m","m","e","r","h","e","a","d">>,
     <<"e","l","e","c","t","r","i","c"," ","r","a","y">>,
     <<"s","t","i","n","g","r","a","y">>,
     <<"c","o","c","k">>,
     <<"h","e","n">>,
     <<"o","s","t","r","i","c","h">>,
     <<"b","r","a","m","b","l","i","n","g">>,
     <<"g","o","l","d","f","i","n","c","h">>,
     <<"h","o","u","s","e"," ","f","i","n","c","h">>,
     <<"j","u","n","c","o">>,
     <<"i","n","d","i","g","o"," ","b","u","n","t","i","n","g">> >>

\* Decimal formatting of a usize, as `{}` prints it.
RECURSIVE ToDigits(_)
ToDigits(n) ==
  LET d == <<"0","1","2","3","4","5","6","7","8","9">>[(n % 10) + 1]
  IN IF n < 10 THEN <<d>> ELSE Append(ToDigits(n \div 10), d)

\* format!("class_{}", index)
ClassName(index) == <<"c","l","a","s","s","_">> \o ToDigits(index)

\* The fallback names alone, without the generated class_<i> entries.
FallbackLabels_Short ==
  [i \in 1..Len(FALLBACK_LABELS) |-> FALLBACK_LABELS[i]]

\* The list get_labels builds when nothing is loaded: the fallback names,
\* then class_<i> for i from their count up to 999.
FallbackLabels ==
  [i \in 1..Max2(FallbackTotal, Len(FALLBACK_LABELS)) |->
     IF i <= Len(FALLBACK_LABELS) THEN FALLBACK_LABELS[i] ELSE ClassName(i - 1)]

\* str::lines: split at "\n"; a final line without terminator counts, an
\* empty remainder after the last terminator does not.
RECURSIVE SplitLines(_, _, _)
SplitLines(s, cur, acc) ==
  IF s = <<>> THEN (IF cur = <<>> THEN acc ELSE Append(acc, cur))
  ELSE IF Head(s) = "\n" THEN SplitLines(Tail(s), <<>>, Append(acc, cur))
  ELSE SplitLines(Tail(s), Append(cur, Head(s)), acc)

Lines(content) == SplitLines(content, <<>>, <<>>)

IsWhite(c) == c \in {" ", "\t", "\r", "\n"}

\* str::trim
RECURSIVE TrimStart(_)
TrimStart(s) ==
  IF s # <<>> /\ IsWhite(Head(s)) THEN TrimStart(Tail(s)) ELSE s

RECURSIVE TrimEnd(_)
TrimEnd(s) ==
  IF s # <<>> /\ IsWhite(s[Len(s)]) THEN TrimEnd(SubSeq(s, 1, Len(s) - 1)) ELSE s

Trim(s) == TrimEnd(TrimStart(s))

\* The non-blank lines are kept as they are read, blanks around them included.
RECURSIVE KeepTrimmed_Untrimmed(_)
KeepTrimmed_Untrimmed(ls) ==
  IF ls = <<>> THEN <<>>
  ELSE IF Trim(Head(ls)) = <<>> THEN KeepTrimmed_Untrimmed(Tail(ls))
  ELSE <<Head(ls)>> \o KeepTrimmed_Untrimmed(Tail(ls))

\* load_labels_from_content, lines 35..39: the non-blank lines, trimmed.
RECURSIVE KeepTrimmed(_)
KeepTrimmed(ls) ==
  IF ls = <<>> THEN <<>>
  ELSE IF Trim(Head(ls)) = <<>> THEN KeepTrimmed(Tail(ls))
  ELSE <<Trim(Head(ls))>> \o KeepTrimmed(Tail(ls))

ParseLabels(content) == KeepTrimmed(Lines(content))

\* ------------------------------------------- inference.rs, pure functions
\* The first output tensor the graph at p computes (the same for every
\* image): a fixed vector of small logits with repeated values.
LogitsOf(p) == [i \in 1..GraphOf(p).outLen |-> (i * 7) % 11]

\* Fold of a binary operator over v[lo..hi], by halving.
RECURSIVE MaxOver(_, _, _)
MaxOver(v, lo, hi) ==
  IF lo = hi THEN v[lo]
  ELSE LET mid == (lo + hi) \div 2
       IN Max2(MaxOver(v, lo, mid), MaxOver(v, mid + 1, hi))

RECURSIVE SumOver(_, _, _)
SumOver(v, lo, hi) ==
  IF lo > hi THEN 0
  ELSE IF lo = hi THEN v[lo]
  ELSE LET mid == (lo + hi) \div 2
       IN SumOver(v, lo, mid) + SumOver(v, mid + 1, hi)

\* exp(d) for d <= 0 in fixed point; like f32 it underflows to 0.
RECURSIVE ExpFixed(_)
ExpFixed(d) == IF d >= 0 THEN FixedOne ELSE (ExpFixed(d + 1) * 368) \div 1000

\* softmax: subtract the maximum, exponentiate, divide by the sum.
softmax(input) ==
  IF Len(input) = 0 THEN <<>>
  ELSE LET max_val == MaxOver(input, 1, Len(input))
           exp_values == [i \in 1..Len(input) |-> ExpFixed(input[i] - max_val)]
           sum == SumOver(exp_values, 1, Len(input))
       IN [i \in 1..Len(input) |-> (exp_values[i] * FixedOne) \div sum]

\* The comparator written a.1.partial_cmp(&b.1): ascending order.
Before_Ascending(probs, i, j) ==
  probs[i] < probs[j] \/ (probs[i] = probs[j] /\ i <= j)

\* The comparator of sort_by, b.1.partial_cmp(&a.1), under a stable sort:
\* i goes before j when its probability is larger, or equal with i earlier.
Before(probs, i, j) ==
  probs[i] > probs[j] \/ (probs[i] = probs[j] /\ i <= j)

\* The first position of lo..hi outside `taken` that sorts before all the
\* others; 0 when there is none.
RECURSIVE FirstOf(_, _, _, _)
FirstOf(probs, taken, lo, hi) ==
  IF lo > hi THEN 0
  ELSE IF lo = hi THEN (IF lo \in taken THEN 0 ELSE lo)
  ELSE LET mid == (lo + hi) \div 2
           l == FirstOf(probs, taken, lo, mid)
           r == FirstOf(probs, taken, mid + 1, hi)
       IN IF l = 0 THEN r
          ELSE IF r = 0 THEN l
          ELSE IF Before(probs, l, r) THEN l ELSE r

\* indexed_probs.sort_by(..) followed by .iter().take(k): the first
\* min(k, len) pairs (class index, probability) of the sorted vector.
RECURSIVE SortedTake(_, _, _)
SortedTake(probs, k, acc) ==
  IF Len(acc) >= Min2(k, Len(probs)) THEN acc
  ELSE LET taken == {acc[n].pos : n \in 1..Len(acc)}
           i == FirstOf(probs, taken, 1, Len(probs))
       IN SortedTake(probs, k, Append(acc, [pos |-> i, idx |-> i - 1, prob |-> probs[i]]))

sort_take(probs, k) ==
  LET full == SortedTake(probs, k, <<>>)
  IN [n \in 1..Len(full) |-> [idx |-> full[n].idx, prob |-> full[n].prob]]

\* softmax and the sorted prefix of every graph's output, computed once.
RankedOf ==
  [p \in ModelPaths |-> sort_take(softmax(LogitsOf(p)), TOP_K_PREDICTIONS)]

\* The threshold compared with > instead of >=.
Classify_OffByOne(p) ==
  IF GraphOf(p).outLen > MIN_CLASSIFICATION_CLASSES
  THEN [is_classification |-> TRUE, ranked |-> RankedOf[p]]
  ELSE [is_classification |-> FALSE, ranked |-> <<>>]

\* run_inference, lines 149..155: an output of at least
\* MIN_CLASSIFICATION_CLASSES elements is ranked, a shorter one is not.
Classify(p) ==
  IF GraphOf(p).outLen >= MIN_CLASSIFICATION_CLASSES
  THEN [is_classification |-> TRUE, ranked |-> RankedOf[p]]
  ELSE [is_classification |-> FALSE, ranked |-> <<>>]

\* ------------------------------------------------------------------- state
VARIABLES
  files,        \* path -> whether a file exists there
  cached,       \* CACHED_SESSION's value: None or Some([path, sid])
  poisoned,     \* CACHED_SESSION's poison flag
  cacheLock,    \* the thread holding CACHED_SESSION across steps, or "free"
  sessions,     \* the live Sessions: [sid, path], sid the building call's number
  lastResult,   \* LAST_RESULT
  lastError,    \* LAST_ERROR
  labels,       \* IMAGENET_LABELS
  calls,        \* entry-point calls issued so far
  pc,           \* thread -> position in its current call
  op,           \* thread -> [name, arg] of its current call
  res,          \* thread -> what its last finished call returned
  loc,          \* thread -> locals of its current call
  lastOk,       \* outcome returned by the latest successful run_inference
  probe         \* the latest direct call of a library function: its input and result

vars ==
  <<files, cached, poisoned, cacheLock, sessions, lastResult,
    lastError, labels, calls, pc, op, res, loc, lastOk, probe>>

\* Locals of a call.  stages: the stages executed so far; seen: the cache
\* value the call read under the lock; sid: the session it built; prev: the
\* cache value it replaced; id: the call's number; the rest are
\* run_inference's and the label loader's locals.
NoLoc ==
  [stages |-> <<>>, seen |-> None, sid |-> 0, prev |-> None, id |-> 0,
   ranked |-> <<>>, top |-> <<>>, is_cls |-> FALSE,
   outcome |-> None, parsed |-> <<>>]

NoOp == [name |-> "none", arg |-> "none"]

\* No library function has been called directly.
NoProbe == [fn |-> "none"]

Init ==
  /\ files = [p \in Paths |-> p # "nofile"]
  /\ cached = None
  /\ poisoned = FALSE
  /\ cacheLock = "free"
  /\ sessions = {}
  /\ lastResult = None
  /\ lastError = None
  /\ labels = None
  /\ calls = 0
  /\ pc = [t \in Threads |-> "idle"]
  /\ op = [t \in Threads |-> NoOp]
  /\ res = [t \in Threads |-> None]
  /\ loc = [t \in Threads |-> NoLoc]
  /\ lastOk = None
  /\ probe = NoProbe

\* A panic that leaves an `extern "system"` function ends the process.
Alive == \A t \in Threads : pc[t] # "aborted"

CanCall(t) == Alive /\ pc[t] \in {"idle", "done"} /\ calls < MaxCalls

\* -------------------------------------------------- introspection (getters)
\* is_model_loaded: false when the lock is poisoned.
is_model_loaded == IF poisoned THEN FALSE ELSE cached # None

\* get_loaded_model_path
get_loaded_model_path == IF poisoned \/ cached = None THEN None ELSE Some(cached.val.path)

\* get_last_result / get_last_error: a clone of the stored value.
get_last_result == lastResult
get_last_error == lastError

\* LabelsManager::get_labels on a store value: the loaded list, or the
\* fallback list when nothing is loaded.
LabelsOf(store) == IF store # None THEN store.val ELSE FallbackLabels

\* LabelsManager::get_labels
get_labels == LabelsOf(labels)

\* The out-of-range index falls back to the built-in list.
get_label_Fallback(index) ==
  LET ls == get_labels
  IN IF index < Len(ls) THEN ls[index + 1]
     ELSE IF index < Len(FallbackLabels) THEN FallbackLabels[index + 1]
     ELSE ClassName(index)

\* LabelsManager::get_label
get_label(index) ==
  LET ls == get_labels
  IN IF index < Len(ls) THEN ls[index + 1] ELSE ClassName(index)

\* The core operation of thread t returns Err(e) with locals l.  The entry
\* points loadModelNative and run_inference_internal then call store_error.
Fail(t, e, l) ==
  /\ res' = [res EXCEPT ![t] = e]
  /\ loc' = [loc EXCEPT ![t] = l]
  /\ pc' = [pc EXCEPT ![t] = "J_store"]

Staged(l, new) == [l EXCEPT !.stages = @ \o new]

\* -------------------------------------------------------------- load_model
\* The comparison inverted.
SamePath_Inverted(cached_path, model_path) == cached_path # model_path

\* Line 87: `cached_path == model_path`.
SamePath(cached_path, model_path) == cached_path = model_path

\* The existence check left out: the call goes straight to the cache check.
LoadExists_Unchecked(t, path) ==
  /\ CanCall(t)
  /\ calls' = calls + 1
  /\ op' = [op EXCEPT ![t] = [name |-> "loadModelNative", arg |-> path]]
  /\ pc' = [pc EXCEPT ![t] = "L_check"]
  /\ loc' = [loc EXCEPT ![t] =
               [NoLoc EXCEPT !.id = calls + 1, !.stages = <<"exists">>]]
  /\ res' = [res EXCEPT ![t] = None]
  /\ UNCHANGED <<probe, files, cached, poisoned, cacheLock, sessions,
                 lastResult, lastError, labels, lastOk>>

\* Lines 79..81, entered from loadModelNative: the existence check.
LoadExists(t, path) ==
  /\ CanCall(t)
  /\ calls' = calls + 1
  /\ op' = [op EXCEPT ![t] = [name |-> "loadModelNative", arg |-> path]]
  /\ IF ~files[path]
     THEN Fail(t, Err("ModelNotFound", path),
               [NoLoc EXCEPT !.id = calls + 1, !.stages = <<"exists">>])
     ELSE /\ pc' = [pc EXCEPT ![t] = "L_check"]
          /\ loc' = [loc EXCEPT ![t] =
                       [NoLoc EXCEPT !.id = calls + 1, !.stages = <<"exists">>]]
          /\ res' = [res EXCEPT ![t] = None]
  /\ UNCHANGED <<probe, files, cached, poisoned, cacheLock, sessions,
                 lastResult, lastError, labels, lastOk>>

\* Lines 84..92: under the lock, return early when the path is the cached
\* one.  A poisoned lock skips the check.  The lock is released at the end
\* of the block in every case.
LoadCheck(t) ==
  /\ Alive
  /\ pc[t] = "L_check"
  /\ cacheLock = "free"
  /\ IF ~poisoned /\ cached # None /\ SamePath(cached.val.path, op[t].arg)
     THEN /\ pc' = [pc EXCEPT ![t] = "done"]
          /\ res' = [res EXCEPT ![t] = Ok("loaded")]
          /\ loc' = [loc EXCEPT ![t] = [Staged(@, <<"check">>) EXCEPT !.seen = cached]]
     ELSE /\ pc' = [pc EXCEPT ![t] = "L_build"]
          /\ loc' = [loc EXCEPT ![t] =
                       [Staged(@, <<"check">>) EXCEPT
                          !.seen = IF poisoned THEN None ELSE cached]]
          /\ UNCHANGED res
  /\ UNCHANGED <<probe, files, cached, poisoned, cacheLock, sessions,
                 lastResult, lastError, labels, calls, op, lastOk>>

\* The cache slot is emptied, and its session dropped, before the new
\* model's file is read.
LoadBuild_Unloads(t) ==
  /\ Alive
  /\ pc[t] = "L_build"
  /\ cacheLock = "free"
  /\ cached' = None
  /\ LET dropped == IF cached = None THEN sessions
                    ELSE {s \in sessions : s.sid # cached.val.sid}
     IN
     IF ~files[op[t].arg]
     THEN /\ Fail(t, Err("ModelLoadingFailed", "Failed to read model file"),
                  Staged(loc[t], <<"read">>))
          /\ sessions' = dropped
     ELSE \E builder_ok \in BOOLEAN :
       IF ~builder_ok
       THEN /\ Fail(t, Err("SessionCreationFailed", "Failed to create ONNX session builder"),
                    Staged(loc[t], <<"read", "build">>))
            /\ sessions' = dropped
       ELSE IF op[t].arg \notin ModelPaths
       THEN /\ Fail(t, Err("ModelLoadingFailed", "Failed to load model from memory"),
                    Staged(loc[t], <<"read", "build">>))
            /\ sessions' = dropped
       ELSE /\ sessions' = dropped \cup {[sid |-> loc[t].id, path |-> op[t].arg]}
            /\ loc' = [loc EXCEPT ![t] =
                         [Staged(@, <<"read", "build">>) EXCEPT !.sid = loc[t].id]]
            /\ pc' = [pc EXCEPT ![t] = "L_install"]
            /\ UNCHANGED res
  /\ UNCHANGED <<probe, files, poisoned, cacheLock,
                 lastResult, lastError, labels, calls, op, lastOk>>

\* Lines 95..102, outside the lock: std::fs::read fails when the file is
\* gone; Session::builder() may fail; commit_from_memory fails on bytes
\* that are no ONNX graph; otherwise a new session exists.
LoadBuild(t) ==
  /\ Alive
  /\ pc[t] = "L_build"
  /\ IF ~files[op[t].arg]
     THEN /\ Fail(t, Err("ModelLoadingFailed", "Failed to read model file"),
                  Staged(loc[t], <<"read">>))
          /\ UNCHANGED sessions
     ELSE \E builder_ok \in BOOLEAN :
       IF ~builder_ok
       THEN /\ Fail(t, Err("SessionCreationFailed", "Failed to create ONNX session builder"),
                    Staged(loc[t], <<"read", "build">>))
            /\ UNCHANGED sessions
       ELSE IF op[t].arg \notin ModelPaths
       THEN /\ Fail(t, Err("ModelLoadingFailed", "Failed to load model from memory"),
                    Staged(loc[t], <<"read", "build">>))
            /\ UNCHANGED sessions
       ELSE /\ sessions' = sessions \cup {[sid |-> loc[t].id, path |-> op[t].arg]}
            /\ loc' = [loc EXCEPT ![t] =
                         [Staged(@, <<"read", "build">>) EXCEPT !.sid = loc[t].id]]
            /\ pc' = [pc EXCEPT ![t] = "L_install"]
            /\ UNCHANGED res
  /\ UNCHANGED <<probe, files, cached, poisoned, cacheLock,
                 lastResult, lastError, labels, calls, op, lastOk>>

\* The old session is kept alive when the slot is overwritten.
Dropped_Leak(old) == sessions

\* The sessions after the cache slot's old value is dropped.
Dropped(old) ==
  IF old = None THEN sessions
  ELSE {s \in sessions : s.sid # old.val.sid}

\* Lines 105..111: under the lock, the slot is overwritten, which drops the
\* session it held.  With a poisoned lock the new session is dropped
\* instead and MemoryError returned.
LoadInstall(t) ==
  /\ Alive
  /\ pc[t] = "L_install"
  /\ cacheLock = "free"
  /\ IF poisoned
     THEN /\ Fail(t, Err("MemoryError", "Failed to acquire session cache mutex"),
                  Staged(loc[t], <<"install">>))
          /\ sessions' = {s \in sessions : s.sid # loc[t].sid}
          /\ UNCHANGED cached
     ELSE /\ cached' = Some([path |-> op[t].arg, sid |-> loc[t].sid])
          /\ sessions' = Dropped(cached)
          /\ loc' = [loc EXCEPT ![t] = [Staged(@, <<"install">>) EXCEPT !.prev = cached]]
          /\ res' = [res EXCEPT ![t] = Ok("loaded")]
          /\ pc' = [pc EXCEPT ![t] = "done"]
  /\ UNCHANGED <<probe, files, poisoned, cacheLock,
                 lastResult, lastError, labels, calls, op, lastOk>>

\* ------------------------------------------------------ lib.rs: store_error
\* What the entry point stores: loadModelNative prefixes the message,
\* run_inference_internal stores e.to_string().
StoredMessage(name, e) ==
  IF name = "loadModelNative"
  THEN <<"Failed to load model: ">> \o Display(e)
  ELSE Display(e)

\* lib.rs 29..33 and 62..66: the Err arm calls store_error, then returns.
JniStore(t) ==
  /\ Alive
  /\ pc[t] = "J_store"
  /\ lastError' = Some(StoredMessage(op[t].name, res[t]))
  /\ pc' = [pc EXCEPT ![t] = "done"]
  /\ UNCHANGED <<probe, files, cached, poisoned, cacheLock, sessions,
                 lastResult, labels, calls, op, res, loc, lastOk>>

\* ----------------------------------------------------------- run_inference
\* The total leaves out the postprocessing time.
new_with_timing_NoPost(run, data, shape, is_classification, top_predictions, inference_time_ms, preprocessing_time_ms, postprocessing_time_ms) ==
  [run |-> run, data |-> data, shape |-> shape,
   is_classification |-> is_classification,
   top_predictions |-> top_predictions,
   inference_time_ms |-> inference_time_ms,
   preprocessing_time_ms |-> preprocessing_time_ms,
   postprocessing_time_ms |-> postprocessing_time_ms,
   total_time_ms |-> preprocessing_time_ms + inference_time_ms]

\* types.rs new_with_timing: total is the sum of the three stage timings.
\* `run` is the number of the call that produced the outcome; `data` names
\* the output vector by the graph that computed it.
new_with_timing(run, data, shape, is_classification, top_predictions, inference_time_ms, preprocessing_time_ms, postprocessing_time_ms) ==
  [run |-> run, data |-> data, shape |-> shape,
   is_classification |-> is_classification,
   top_predictions |-> top_predictions,
   inference_time_ms |-> inference_time_ms,
   preprocessing_time_ms |-> preprocessing_time_ms,
   postprocessing_time_ms |-> postprocessing_time_ms,
   total_time_ms |-> preprocessing_time_ms + inference_time_ms + postprocessing_time_ms]

\* The cache is locked and looked up before the image is decoded.
RunPreprocess_CacheFirst(t, img) ==
  /\ CanCall(t)
  /\ cacheLock = "free"
  /\ calls' = calls + 1
  /\ op' = [op EXCEPT ![t] = [name |-> "runInferenceNative", arg |-> img]]
  /\ IF cached = None
     THEN Fail(t, Err("ModelNotFound", "No model loaded. Call load_model first."),
               [NoLoc EXCEPT !.id = calls + 1, !.stages = <<"lock">>])
     ELSE IF img = "junk"
     THEN Fail(t, Err("InvalidImageData", "Failed to load image from bytes"),
               [NoLoc EXCEPT !.id = calls + 1, !.stages = <<"lock", "preprocess">>])
     ELSE /\ pc' = [pc EXCEPT ![t] = "R_lock"]
          /\ loc' = [loc EXCEPT ![t] =
                       [NoLoc EXCEPT !.id = calls + 1, !.stages = <<"preprocess">>]]
          /\ res' = [res EXCEPT ![t] = None]
  /\ UNCHANGED <<probe, files, cached, poisoned, cacheLock, sessions,
                 lastResult, lastError, labels, lastOk>>

\* Lines 117..120, entered from runInferenceNative: preprocess_image, with
\* its timing.  Undecodable bytes end the call.
RunPreprocess(t, img) ==
  /\ CanCall(t)
  /\ calls' = calls + 1
  /\ op' = [op EXCEPT ![t] = [name |-> "runInferenceNative", arg |-> img]]
  /\ IF img = "junk"
     THEN Fail(t, Err("InvalidImageData", "Failed to load image from bytes"),
               [NoLoc EXCEPT !.id = calls + 1, !.stages = <<"preprocess">>])
     ELSE /\ pc' = [pc EXCEPT ![t] = "R_lock"]
          /\ loc' = [loc EXCEPT ![t] =
                       [NoLoc EXCEPT !.id = calls + 1, !.stages = <<"preprocess">>]]
          /\ res' = [res EXCEPT ![t] = None]
  /\ UNCHANGED <<probe, files, cached, poisoned, cacheLock, sessions,
                 lastResult, lastError, labels, lastOk>>

\* The wrong error class for an empty slot.
EmptySlotError_Wrong == Err("InferenceFailed", "No model loaded. Call load_model first.")

\* Line 179: the error of a run against an empty slot.
EmptySlotError == Err("ModelNotFound", "No model loaded. Call load_model first.")

\* The guard is dropped once the session has been looked up, before the
\* engine runs.
GuardHolder_Released(t) == "free"

\* Line 122: the guard `cache` is a local of run_inference and lives to the
\* end of the function, so the calling thread holds the lock from here on.
GuardHolder(t) == t

\* Lines 122..132: take the lock (MemoryError when poisoned); an empty slot
\* is ModelNotFound; Value::from_array may fail; `session.inputs[0]` panics
\* on a graph without inputs, which poisons the lock while unwinding, or
\* ends the process when the panic leaves the JNI function.  Otherwise the
\* call goes on holding the lock.
RunLock(t) ==
  /\ Alive
  /\ pc[t] = "R_lock"
  /\ cacheLock = "free"
  /\ IF poisoned
     THEN /\ Fail(t, Err("MemoryError", "Failed to acquire session cache mutex"),
                  Staged(loc[t], <<"lock">>))
          /\ UNCHANGED <<cacheLock, poisoned>>
     ELSE IF cached = None
     THEN /\ Fail(t, EmptySlotError, Staged(loc[t], <<"lock">>))
          /\ UNCHANGED <<cacheLock, poisoned>>
     ELSE \E tensor_ok \in BOOLEAN :
            IF ~tensor_ok
            THEN /\ Fail(t, Err("InferenceFailed", "Failed to create input tensor"),
                         [Staged(loc[t], <<"lock", "tensor">>) EXCEPT !.seen = cached])
                 /\ UNCHANGED <<cacheLock, poisoned>>
            ELSE IF GraphOf(cached.val.path).inputs = 0
            THEN \E unwinds \in BOOLEAN :
                   /\ pc' = [pc EXCEPT ![t] = IF unwinds THEN "panicked" ELSE "aborted"]
                   /\ poisoned' = unwinds
                   /\ loc' = [loc EXCEPT ![t] =
                                [Staged(@, <<"lock", "tensor">>) EXCEPT !.seen = cached]]
                   /\ UNCHANGED <<cacheLock, res>>
            ELSE /\ cacheLock' = GuardHolder(t)
                 /\ pc' = [pc EXCEPT ![t] = "R_engine"]
                 /\ loc' = [loc EXCEPT ![t] =
                              [Staged(@, <<"lock", "tensor">>) EXCEPT !.seen = cached]]
                 /\ UNCHANGED <<poisoned, res>>
  /\ UNCHANGED <<probe, files, cached, sessions, lastResult, lastError,
                 labels, calls, op, lastOk>>

\* A failed engine run that stores a partial outcome before returning.
RunEngineFails_Stores(t) ==
  /\ Alive
  /\ pc[t] = "R_engine"
  /\ Fail(t, Err("InferenceFailed", "Inference execution failed"),
          Staged(loc[t], <<"engine">>))
  /\ cacheLock' = "free"
  /\ lastResult' = Some(new_with_timing(loc[t].id, cached.val.path, <<>>, FALSE, <<>>, 0, 0, 0))
  /\ UNCHANGED <<probe, files, cached, poisoned, sessions,
                 lastError, labels, calls, op, lastOk>>

\* Lines 134..136: session.run fails; the guard is dropped on return.
RunEngineFails(t) ==
  /\ Alive
  /\ pc[t] = "R_engine"
  /\ Fail(t, Err("InferenceFailed", "Inference execution failed"),
          Staged(loc[t], <<"engine">>))
  /\ cacheLock' = "free"
  /\ UNCHANGED <<probe, files, cached, poisoned, sessions, lastResult,
                 lastError, labels, calls, op, lastOk>>

\* Lines 141, 175..177: the engine returned no output value.
RunNoOutput(t) ==
  /\ Alive
  /\ pc[t] = "R_engine"
  /\ Fail(t, Err("OutputProcessingFailed", "No output from model"),
          Staged(loc[t], <<"engine", "output">>))
  /\ cacheLock' = "free"
  /\ UNCHANGED <<probe, files, cached, poisoned, sessions, lastResult,
                 lastError, labels, calls, op, lastOk>>

\* Lines 143..145: the first output is no f32 tensor.
RunExtractFails(t) ==
  /\ Alive
  /\ pc[t] = "R_engine"
  /\ Fail(t, Err("OutputProcessingFailed", "Failed to extract tensor data"),
          Staged(loc[t], <<"engine", "output", "extract">>))
  /\ cacheLock' = "free"
  /\ UNCHANGED <<probe, files, cached, poisoned, sessions, lastResult,
                 lastError, labels, calls, op, lastOk>>

\* Lines 134..155 on success: the engine ran, the first output was
\* extracted, and it was classified: softmax and sort when long enough.
\* The labels of the ranked entries are resolved one get_label at a time.
RunEngine(t) ==
  /\ Alive
  /\ pc[t] = "R_engine"
  /\ LET c == Classify(cached.val.path)
     IN /\ loc' = [loc EXCEPT ![t] =
                     [Staged(@, <<"engine", "output", "extract">>) EXCEPT
                        !.is_cls = c.is_classification,
                        !.ranked = c.ranked, !.top = <<>>]]
        /\ pc' = [pc EXCEPT ![t] = IF c.ranked = <<>> THEN "R_store" ELSE "R_rank"]
  /\ UNCHANGED <<probe, files, cached, poisoned, cacheLock, sessions,
                 lastResult, lastError, labels, calls, op, res, lastOk>>

\* get_top_predictions, lines 67..73: the next ranked pair becomes a
\* ClassificationResult whose name get_label reads from the label store.
RunRank(t) ==
  /\ Alive
  /\ pc[t] = "R_rank"
  /\ LET n == Len(loc[t].top) + 1
         e == loc[t].ranked[n]
     IN /\ loc' = [loc EXCEPT ![t].top =
                     Append(@, [class_id |-> e.idx,
                                class_name |-> get_label(e.idx),
                                confidence |-> e.prob])]
        /\ pc' = [pc EXCEPT ![t] = IF n = Len(loc[t].ranked) THEN "R_store" ELSE "R_rank"]
  /\ UNCHANGED <<probe, files, cached, poisoned, cacheLock, sessions,
                 lastResult, lastError, labels, calls, op, res, lastOk>>

\* The stored record is updated field by field and the timings of the
\* previous outcome are left in place.
RunStore_KeepsTimings(t) ==
  /\ Alive
  /\ pc[t] = "R_store"
  /\ \E ms \in Clock :
       LET g == cached.val.path
           result == new_with_timing(loc[t].id, g, <<1, GraphOf(g).outLen>>,
                                     loc[t].is_cls, loc[t].top, ms[2], ms[1], ms[3])
       IN /\ lastResult' =
               IF lastResult = None THEN Some(result)
               ELSE Some([result EXCEPT
                            !.inference_time_ms = lastResult.val.inference_time_ms,
                            !.preprocessing_time_ms = lastResult.val.preprocessing_time_ms,
                            !.postprocessing_time_ms = lastResult.val.postprocessing_time_ms,
                            !.total_time_ms = lastResult.val.total_time_ms])
          /\ loc' = [loc EXCEPT ![t] = [Staged(@, <<"store">>) EXCEPT !.outcome = Some(result)]]
  /\ pc' = [pc EXCEPT ![t] = "R_unlock"]
  /\ UNCHANGED <<probe, files, cached, poisoned, cacheLock, sessions,
                 lastError, labels, calls, op, res, lastOk>>

\* Lines 157..172: the outcome is assembled and a clone of it stored in
\* LAST_RESULT, still under the cache lock.  The three elapsed times are
\* read by nothing before this point, so the clock's values are drawn here.
RunStore(t) ==
  /\ Alive
  /\ pc[t] = "R_store"
  /\ \E ms \in Clock :
       LET g == cached.val.path
           result == new_with_timing(loc[t].id, g, <<1, GraphOf(g).outLen>>,
                                     loc[t].is_cls, loc[t].top, ms[2], ms[1], ms[3])
       IN /\ lastResult' = Some(result)
          /\ loc' = [loc EXCEPT ![t] = [Staged(@, <<"store">>) EXCEPT !.outcome = Some(result)]]
  /\ pc' = [pc EXCEPT ![t] = "R_unlock"]
  /\ UNCHANGED <<probe, files, cached, poisoned, cacheLock, sessions,
                 lastError, labels, calls, op, res, lastOk>>

\* A successful run clears the last error before it returns.
RunUnlock_ClearsError(t) ==
  /\ Alive
  /\ pc[t] = "R_unlock"
  /\ cacheLock' = "free"
  /\ res' = [res EXCEPT ![t] = Ok(loc[t].outcome.val)]
  /\ lastOk' = loc[t].outcome
  /\ lastError' = None
  /\ pc' = [pc EXCEPT ![t] = "done"]
  /\ UNCHANGED <<probe, files, cached, poisoned, sessions, lastResult,
                 labels, calls, op, loc>>

\* Line 174 and the end of the function: Ok(result) is returned and the
\* guard dropped.
RunUnlock(t) ==
  /\ Alive
  /\ pc[t] = "R_unlock"
  /\ cacheLock' = "free"
  /\ res' = [res EXCEPT ![t] = Ok(loc[t].outcome.val)]
  /\ lastOk' = loc[t].outcome
  /\ pc' = [pc EXCEPT ![t] = "done"]
  /\ UNCHANGED <<probe, files, cached, poisoned, sessions, lastResult,
                 lastError, labels, calls, op, loc>>

\* ------------------------------------------------------------ label loading
\* loadImageNetLabelsNative -> load_labels_from_file -> read_to_string and
\* load_labels_from_content up to line 45.  A missing file or one that is
\* no text fails; so does a text without a non-blank line.  The entry point
\* returns the error's message and does not call store_error.
LabelsRead(t, path) ==
  /\ CanCall(t)
  /\ calls' = calls + 1
  /\ op' = [op EXCEPT ![t] = [name |-> "loadImageNetLabelsNative", arg |-> path]]
  /\ IF ~files[path] \/ path \notin LabelPaths
     THEN /\ res' = [res EXCEPT ![t] = Err("LabelsLoadingFailed", "Failed to read file")]
          /\ loc' = [loc EXCEPT ![t] = [NoLoc EXCEPT !.id = calls + 1, !.stages = <<"read">>]]
          /\ pc' = [pc EXCEPT ![t] = "done"]
     ELSE LET parsed == ParseLabels(TextOf(path))
          IN IF parsed = <<>>
             THEN /\ res' = [res EXCEPT ![t] = Err("LabelsLoadingFailed", "Labels file is empty")]
                  /\ loc' = [loc EXCEPT ![t] =
                               [NoLoc EXCEPT !.id = calls + 1, !.stages = <<"read", "parse">>]]
                  /\ pc' = [pc EXCEPT ![t] = "done"]
             ELSE /\ res' = [res EXCEPT ![t] = None]
                  /\ loc' = [loc EXCEPT ![t] =
                               [NoLoc EXCEPT !.id = calls + 1, !.parsed = parsed,
                                             !.stages = <<"read", "parse">>]]
                  /\ pc' = [pc EXCEPT ![t] = "B_store"]
  /\ UNCHANGED <<probe, files, cached, poisoned, cacheLock, sessions,
                 lastResult, lastError, labels, lastOk>>

\* labels.rs 48..52: the parsed list replaces IMAGENET_LABELS.
LabelsStore(t) ==
  /\ Alive
  /\ pc[t] = "B_store"
  /\ labels' = Some(loc[t].parsed)
  /\ res' = [res EXCEPT ![t] = Ok(Len(loc[t].parsed))]
  /\ loc' = [loc EXCEPT ![t] = Staged(@, <<"store">>)]
  /\ pc' = [pc EXCEPT ![t] = "done"]
  /\ UNCHANGED <<probe, files, cached, poisoned, cacheLock, sessions,
                 lastResult, lastError, calls, op, lastOk>>

\* ------------------------------------------------------------- environment
\* Something outside the program deletes a file.
EnvRemove(p) ==
  /\ Alive
  /\ files[p]
  /\ files' = [files EXCEPT ![p] = FALSE]
  /\ UNCHANGED <<probe, cached, poisoned, cacheLock, sessions, lastResult,
                 lastError, labels, calls, pc, op, res, loc, lastOk>>

Next ==
  \/ \E t \in Threads, p \in ModelArgs : LoadExists(t, p)
  \/ \E t \in Threads : LoadCheck(t)
  \/ \E t \in Threads : LoadBuild(t)
  \/ \E t \in Threads : LoadInstall(t)
  \/ \E t \in Threads : JniStore(t)
  \/ \E t \in Threads, img \in Images : RunPreprocess(t, img)
  \/ \E t \in Threads : RunLock(t)
  \/ \E t \in Threads : RunEngineFails(t)
  \/ \E t \in Threads : RunNoOutput(t)
  \/ \E t \in Threads : RunExtractFails(t)
  \/ \E t \in Threads : RunEngine(t)
  \/ \E t \in Threads : RunRank(t)
  \/ \E t \in Threads : RunStore(t)
  \/ \E t \in Threads : RunUnlock(t)
  \/ \E t \in Threads, p \in LabelArgs : LabelsRead(t, p)
  \/ \E t \in Threads : LabelsStore(t)
  \/ \E p \in Removable : EnvRemove(p)

Spec == Init /\ [][Next]_vars

\* ----------------------------------------------------------------- fairness
\* A step of the call thread t is executing: everything but the entry into
\* a new call, which the host is free never to make.
Continue(t) ==
  \/ LoadCheck(t) \/ LoadBuild(t) \/ LoadInstall(t) \/ JniStore(t)
  \/ RunLock(t) \/ RunEngineFails(t) \/ RunNoOutput(t) \/ RunExtractFails(t)
  \/ RunEngine(t) \/ RunRank(t) \/ RunStore(t) \/ RunUnlock(t)
  \/ LabelsStore(t)

\* The host's scheduler runs every thread that can take a step: a thread
\* inside a call is a native thread executing straight-line code, and one
\* blocked in Mutex::lock is woken when the lock is released.  The engine
\* call returns (RunEngine or one of its failures is among the steps).
Fairness == \A t \in Threads : WF_vars(Continue(t))

SpecFair == Init /\ [][Next]_vars /\ Fairness

\* ------------------------------------------------------------ direct calls
\* The library functions called one at a time on the process-wide label
\* store, outside any entry point: get_top_predictions, the label loaders
\* and get_label.  probe records the call and what it returned.
BoundedSeq(S, n) == UNION {[1..m -> S] : m \in 0..n}

\* Probabilities in tenths; the vector of test_top_predictions is <<1, 7, 2>>.
ProbValues == {1, 2, 7}
ProbVectors == BoundedSeq(ProbValues, MaxLen)
Ks == 0..(MaxLen + 1)

\* Label texts: every short text of a letter, blanks and line ends, and
\* three longer ones (the text of test_load_labels_from_content, one with
\* tabs and CR LF line ends, and one whose last line has no terminator).
TextChars == {"a", " ", "\n"}
Contents ==
  BoundedSeq(TextChars, MaxText) \cup
  { <<"d","o","g","\n","c","a","t","\n","b","i","r","d","\n">>,
    <<"\t","d"," ","g"," ","\r","\n","\r","\n"," ","c","\r","\n">>,
    <<"\n","d","\n","\n","c","c">> }

Indices == {0, 1, 2, 3, 14, 15, 999, 1000, 1001}

\* get_top_predictions, lines 58..74, as one call.
get_top_predictions(probabilities, k) ==
  LET ranked == sort_take(probabilities, k)
  IN [n \in 1..Len(ranked) |->
        [class_id |-> ranked[n].idx,
         class_name |-> get_label(ranked[n].idx),
         confidence |-> ranked[n].prob]]

\* A failed load empties the store.
load_labels_from_content_Clears(store, content) ==
  LET parsed == ParseLabels(content)
  IN IF parsed = <<>>
     THEN [store |-> None, out |-> Err("LabelsLoadingFailed", "Labels file is empty")]
     ELSE [store |-> Some(parsed), out |-> Ok(Len(parsed))]

\* load_labels_from_content, lines 34..55: the store after the call and the
\* value returned.
load_labels_from_content(store, content) ==
  LET parsed == ParseLabels(content)
  IN IF parsed = <<>>
     THEN [store |-> store, out |-> Err("LabelsLoadingFailed", "Labels file is empty")]
     ELSE [store |-> Some(parsed), out |-> Ok(Len(parsed))]

\* load_labels_from_file, lines 58..63.
load_labels_from_file(store, path) ==
  IF ~files[path] \/ path \notin LabelPaths
  THEN [store |-> store, out |-> Err("LabelsLoadingFailed", "Failed to read file")]
  ELSE load_labels_from_content(store, TextOf(path))

GetTopPredictions(probabilities, k) ==
  /\ probe' = [fn |-> "get_top_predictions", probabilities |-> probabilities,
               k |-> k, out |-> get_top_predictions(probabilities, k)]
  /\ UNCHANGED <<files, cached, poisoned, cacheLock, sessions, lastResult,
                 lastError, labels, calls, pc, op, res, loc, lastOk>>

LoadLabelsFromContent(content) ==
  /\ LET r == load_labels_from_content(labels, content)
     IN /\ labels' = r.store
        /\ probe' = [fn |-> "load_labels_from_content", content |-> content,
                     before |-> labels, out |-> r.out]
  /\ UNCHANGED <<files, cached, poisoned, cacheLock, sessions, lastResult,
                 lastError, calls, pc, op, res, loc, lastOk>>

LoadLabelsFromFile(path) ==
  /\ LET r == load_labels_from_file(labels, path)
     IN /\ labels' = r.store
        /\ probe' = [fn |-> "load_labels_from_file", path |-> path,
                     before |-> labels, out |-> r.out]
  /\ UNCHANGED <<files, cached, poisoned, cacheLock, sessions, lastResult,
                 lastError, calls, pc, op, res, loc, lastOk>>

GetLabel(index) ==
  /\ probe' = [fn |-> "get_label", index |-> index, out |-> get_label(index)]
  /\ UNCHANGED <<files, cached, poisoned, cacheLock, sessions, lastResult,
                 lastError, labels, calls, pc, op, res, loc, lastOk>>

\* Direct calls of get_top_predictions alone.
NextTop ==
  \E probabilities \in ProbVectors, k \in Ks : GetTopPredictions(probabilities, k)

SpecTop == Init /\ [][NextTop]_vars

\* Direct calls of the label store's functions, in any order.
NextLabels ==
  \/ \E content \in Contents : LoadLabelsFromContent(content)
  \/ \E path \in LabelArgs : LoadLabelsFromFile(path)
  \/ \E index \in Indices : GetLabel(index)

SpecLabels == Init /\ [][NextLabels]_vars


\* ------------------------------------------------------------------ claims
IsLoad(t) == op[t].name = "loadModelNative"
IsRun(t) == op[t].name = "runInferenceNative"
IsLabels(t) == op[t].name = "loadImageNetLabelsNative"
\* The core operation of t's call has returned.
Returned(t) == pc[t] \in {"J_store", "done"}

\* C1: every load_model is atomic with respect to other loads and runs:
\* between its same-path check and its installation the cache is not
\* changed by another thread, and no two live sessions are built from the
\* same path.
C1_LoadAtomic ==
  /\ \A t \in Threads :
       (~poisoned /\ pc[t] \in {"L_build", "L_install"}) => cached = loc[t].seen
  /\ \A s1 \in sessions, s2 \in sessions : s1.path = s2.path => s1 = s2

\* C2: when load_model(p) inspects a cache that is Loaded(p), having found
\* the file at p, it returns Ok at once: nothing is read, no session is
\* built, and the cached pair stays the same.
C2_SamePathNoOp ==
  [][\A t \in Threads :
       (pc[t] = "L_check" /\ pc'[t] # "L_check"
          /\ get_loaded_model_path = Some(op[t].arg))
       => /\ pc'[t] = "done"
          /\ IsOk(res'[t])
          /\ loc'[t].stages = <<"exists", "check">>
          /\ cached' = cached
          /\ sessions' = sessions]_vars

C2_Witness ==
  \E t \in Threads :
    /\ pc[t] = "done" /\ IsLoad(t) /\ IsOk(res[t])
    /\ loc[t].stages = <<"exists", "check">>
    /\ loc[t].seen # None
    /\ loc[t].seen = cached

\* C3: when a load_model(q) installs its session into a cache that is
\* Loaded(p), p # q, then right after it the slot holds the session built
\* from q, that is the only live session no unfinished load still owns, the
\* session built from p is released, is_model_loaded() is true and
\* get_loaded_model_path() is q.
C3_ReplaceOnChange ==
  [][\A t \in Threads :
       (pc[t] = "L_install" /\ pc'[t] = "done" /\ IsOk(res'[t])
          /\ cached # None /\ cached.val.path # op[t].arg)
       => LET new == [sid |-> loc[t].sid, path |-> op[t].arg]
              owned == {loc'[u].sid : u \in {v \in Threads : pc'[v] = "L_install"}}
          IN /\ cached' = Some(new)
             /\ {s \in sessions' : s.sid \notin owned} = {new}
             /\ \A s \in sessions' : s.sid # cached.val.sid
             /\ is_model_loaded'
             /\ get_loaded_model_path' = Some(op[t].arg)]_vars

C3_Witness ==
  \E t \in Threads :
    /\ pc[t] = "done" /\ IsLoad(t) /\ IsOk(res[t])
    /\ loc[t].prev # None
    /\ loc[t].prev.val.path # op[t].arg
    /\ cached = Some([sid |-> loc[t].sid, path |-> op[t].arg])

\* C4: while no load_model has succeeded (the cache is Empty), a
\* run_inference on decodable bytes has returned ModelNotFound without
\* running the engine, and get_last_result() is None.
C4_RunOnEmpty ==
  \A t \in Threads :
    (Returned(t) /\ IsRun(t) /\ op[t].arg = "jpeg" /\ cached = None)
    => /\ IsErr(res[t])
       /\ res[t].kind = "ModelNotFound"
       /\ loc[t].stages = <<"preprocess", "lock">>
       /\ get_last_result = None

C4_Witness ==
  \E t \in Threads :
    /\ pc[t] = "done" /\ IsRun(t) /\ op[t].arg = "jpeg" /\ cached = None
    /\ res[t] = Err("ModelNotFound", "No model loaded. Call load_model first.")

\* The error class each stage of run_inference fails with.
StageErrors ==
  {<<"preprocess", "InvalidImageData">>, <<"lock", "MemoryError">>,
   <<"lock", "ModelNotFound">>, <<"tensor", "InferenceFailed">>,
   <<"engine", "InferenceFailed">>, <<"output", "OutputProcessingFailed">>,
   <<"extract", "OutputProcessingFailed">>}

RunStages == <<"preprocess", "lock", "tensor", "engine", "output", "extract", "store">>

\* C5: a run_inference that returned an error stopped at the stage that
\* failed (the stages it executed are a prefix of the pipeline ending in
\* that stage, whose error it returns), stored nothing, and its outcome is
\* not what get_last_result() returns.
C5_FailedRunStoresNothing ==
  \A t \in Threads :
    (Returned(t) /\ IsRun(t) /\ IsErr(res[t]))
    => LET st == loc[t].stages
       IN /\ st = SubSeq(RunStages, 1, Len(st))
          /\ <<st[Len(st)], res[t].kind>> \in StageErrors
          /\ st[Len(st)] # "store"
          /\ loc[t].outcome = None
          /\ (get_last_result = None \/ get_last_result.val.run # loc[t].id)

C5_Witness ==
  \E t \in Threads :
    /\ pc[t] = "done" /\ IsRun(t) /\ IsErr(res[t])
    /\ res[t].kind = "InferenceFailed"
    /\ loc[t].stages = <<"preprocess", "lock", "tensor", "engine">>
    /\ lastResult # None
    /\ lastResult.val.run < loc[t].id

\* C6: every error a core operation returns through a JNI entry point
\* (model load, run inference, label load from a path) is in the last-error
\* state when the entry point returns: get_last_error() then gives the
\* message of that failure.
C6_ErrorsMirrored ==
  [][\A t \in Threads :
       (pc[t] # "done" /\ pc'[t] = "done" /\ IsErr(res'[t]))
       => get_last_error' = Some(StoredMessage(op'[t].name, res'[t]))]_vars

\* C7: no core operation panics or ends the process, whatever model is
\* loaded, and the shared locks stay usable.
C7_NoPanic ==
  /\ \A t \in Threads : pc[t] \notin {"panicked", "aborted"}
  /\ ~poisoned

\* C8: a load_model(path) that starts while no file exists at path returns
\* ModelNotFound from its first step, before the cache is looked at, also
\* when path is the path of the loaded model.
C8_MissingFileFirst ==
  [][\A t \in Threads :
       (calls' = calls + 1 /\ loc'[t].id = calls' /\ op'[t].name = "loadModelNative"
          /\ ~files[op'[t].arg])
       => /\ res'[t] = Err("ModelNotFound", op'[t].arg)
          /\ pc'[t] = "J_store"
          /\ loc'[t].stages = <<"exists">>
          /\ cached' = cached]_vars

C8_Witness ==
  \E t \in Threads :
    /\ pc[t] = "done" /\ IsLoad(t)
    /\ res[t] = Err("ModelNotFound", op[t].arg)
    /\ get_loaded_model_path = Some(op[t].arg)

\* C9: get_last_result() is None as long as no run_inference has succeeded;
\* otherwise it is the whole outcome of the successful run that last held
\* the cache lock: the one holding it now once it has stored, else the
\* latest one that returned.  It is field for field what that run returns.
C9_LastResultIsLatestRun ==
  LET storing == {t \in Threads : pc[t] = "R_unlock"}
  IN /\ IF storing # {}
        THEN \A t \in storing : get_last_result = loc[t].outcome
        ELSE get_last_result = lastOk
     /\ \A t \in Threads :
          (pc[t] = "done" /\ IsRun(t) /\ IsOk(res[t]) /\ get_last_result # None
             /\ get_last_result.val.run = res[t].val.run)
          => get_last_result.val = res[t].val

C9_Witness ==
  \E t \in Threads, u \in Threads :
    /\ t # u
    /\ pc[t] = "done" /\ IsRun(t) /\ IsOk(res[t])
    /\ pc[u] = "done" /\ IsRun(u) /\ IsOk(res[u])
    /\ res[t].val.run < res[u].val.run
    /\ res[t].val.total_time_ms # res[u].val.total_time_ms
    /\ get_last_result = Some(res[u].val)

\* C10: every outcome a successful run_inference returns has
\* is_classification = false and no ranked entries when its output has
\* fewer than 1000 elements, and is_classification = true with exactly 5
\* ranked entries when it has 1000 or more.
C10_ClassificationThreshold ==
  \A t \in Threads :
    (pc[t] = "done" /\ IsRun(t) /\ IsOk(res[t]))
    => LET o == res[t].val
           n == Len(LogitsOf(o.data))
       IN /\ n < 1000 => (~o.is_classification /\ o.top_predictions = <<>>)
          /\ n >= 1000 => (o.is_classification /\ Len(o.top_predictions) = 5)

C10_Witness ==
  \E t \in Threads :
    /\ pc[t] = "done" /\ IsRun(t) /\ IsOk(res[t])
    /\ Len(LogitsOf(res[t].val.data)) = 1000
    /\ Len(res[t].val.top_predictions) = 5
    /\ res[t].val.top_predictions[1].class_id = 2

\* C11: for every probability vector and every k, get_top_predictions
\* returns min(k, length) entries with distinct class indices, each with the
\* probability of its own index, in non-increasing order of confidence, and
\* no index left out has a higher probability than a returned one; for
\* (0.1, 0.7, 0.2) and k = 2 it returns index 1, then index 2.
C11_TopPredictions ==
  probe.fn = "get_top_predictions" =>
    LET p == probe.probabilities
        k == probe.k
        out == probe.out
        ids == {out[n].class_id : n \in 1..Len(out)}
    IN /\ Len(out) = (IF k < Len(p) THEN k ELSE Len(p))
       /\ \A m, n \in 1..Len(out) : m # n => out[m].class_id # out[n].class_id
       /\ \A n \in 1..Len(out) :
            /\ out[n].class_id \in 0..(Len(p) - 1)
            /\ out[n].confidence = p[out[n].class_id + 1]
       /\ \A n \in 1..(Len(out) - 1) : out[n].confidence >= out[n + 1].confidence
       /\ \A i \in 0..(Len(p) - 1) :
            i \notin ids => \A n \in 1..Len(out) : p[i + 1] <= out[n].confidence
       /\ (p = <<1, 7, 2>> /\ k = 2) =>
            (out[1].class_id = 1 /\ out[2].class_id = 2)

\* The call of test_top_predictions has returned class 1, then class 2.
C11_Witness ==
  /\ probe.fn = "get_top_predictions"
  /\ probe.probabilities = <<1, 7, 2>>
  /\ probe.k = 2
  /\ Len(probe.out) = 2
  /\ probe.out[1].class_id = 1
  /\ probe.out[2].class_id = 2

\* The number a sequence of decimal digits denotes.
RECURSIVE DecimalValue(_)
DecimalValue(ds) ==
  IF ds = <<>> THEN 0
  ELSE LET d == CHOOSE v \in 0..9 :
                  <<"0","1","2","3","4","5","6","7","8","9">>[v + 1] = ds[Len(ds)]
       IN 10 * DecimalValue(SubSeq(ds, 1, Len(ds) - 1)) + d

\* s reads class_<i>, i in decimal without leading zeros.
IsClassName(s, i) ==
  /\ Len(s) > 6
  /\ SubSeq(s, 1, 6) = <<"c","l","a","s","s","_">>
  /\ \A n \in 7..Len(s) : s[n] \in {"0","1","2","3","4","5","6","7","8","9"}
  /\ (Len(s) = 7 \/ s[7] # "0")
  /\ DecimalValue(SubSeq(s, 7, Len(s))) = i

LabelLoaders == {"load_labels_from_content", "load_labels_from_file"}

\* C12: after any sequence of label loads, failed or successful,
\* get_labels() is not empty; while no load has succeeded it has exactly
\* 1000 entries: the 15 fallback names at 0..14 ("tench" first, "indigo
\* bunting" last), then class_<i> for every i from 15 to 999.
C12_FallbackLabels ==
  /\ get_labels # <<>>
  /\ labels = None =>
       /\ Len(get_labels) = 1000
       /\ Len(FALLBACK_LABELS) = 15
       /\ \A i \in 0..14 : get_labels[i + 1] = FALLBACK_LABELS[i + 1]
       /\ get_labels[1] = <<"t","e","n","c","h">>
       /\ get_labels[15] = <<"i","n","d","i","g","o"," ","b","u","n","t","i","n","g">>
       /\ \A i \in 15..999 : IsClassName(get_labels[i + 1], i)

\* A load has failed and the fallback list is still the active one.
C12_Witness ==
  /\ probe.fn \in LabelLoaders
  /\ IsErr(probe.out)
  /\ labels = None
  /\ Len(get_labels) = 1000
  /\ get_labels[1000] = <<"c","l","a","s","s","_","9","9","9">>

\* The lines of a text described by positions: position i lies on the line
\* numbered by the line ends before it, a line is non-blank when it holds a
\* character that is no white space, and its label runs from its first
\* such character to its last.
Blank == {" ", "\t", "\r", "\n"}
Ink(c) == {i \in 1..Len(c) : c[i] \notin Blank}
LineNo(c, i) == Cardinality({j \in 1..(i - 1) : c[j] = "\n"})
NonBlankLines(c) == {LineNo(c, i) : i \in Ink(c)}
LabelOnLine(c, l) ==
  LET on == {i \in Ink(c) : LineNo(c, i) = l}
      first == CHOOSE i \in on : \A j \in on : i <= j
      last == CHOOSE i \in on : \A j \in on : j <= i
  IN SubSeq(c, first, last)
ExpectedLabels(c) ==
  LET ls == NonBlankLines(c)
      nth(n) == CHOOSE l \in ls : Cardinality({m \in ls : m < l}) = n - 1
  IN [n \in 1..Cardinality(ls) |-> LabelOnLine(c, nth(n))]

DogCatBird == <<"d","o","g","\n","c","a","t","\n","b","i","r","d","\n">>

\* C13: load_labels_from_content on a text with at least one non-blank line
\* returns the number of its non-blank lines, and afterwards get_labels()
\* is exactly those lines, trimmed, in their order in the text, with nothing
\* of the previously active or fallback list left.
C13_LoadReplaces ==
  (probe.fn = "load_labels_from_content" /\ Ink(probe.content) # {}) =>
    /\ probe.out = Ok(Cardinality(NonBlankLines(probe.content)))
    /\ get_labels = ExpectedLabels(probe.content)
    /\ probe.content = DogCatBird =>
         /\ probe.out = Ok(3)
         /\ get_labels = << <<"d","o","g">>, <<"c","a","t">>, <<"b","i","r","d">> >>

\* The three-line text was loaded over an earlier loaded list that had a
\* different number of entries.
C13_Witness ==
  /\ probe.fn = "load_labels_from_content"
  /\ probe.content = DogCatBird
  /\ probe.before # None
  /\ Len(probe.before.val) # 3
  /\ probe.out = Ok(3)
  /\ Len(get_labels) = 3

\* C14: load_labels_from_content on a text without a non-blank line, and
\* load_labels_from_file on a path that cannot be read, return
\* LabelsLoadingFailed and leave the active label set as it was.
C14_FailedLoadKeepsLabels ==
  LET failing ==
        \/ probe.fn = "load_labels_from_content" /\ Ink(probe.content) = {}
        \/ probe.fn = "load_labels_from_file" /\ ~files[probe.path]
        \/ probe.fn = "load_labels_from_file" /\ files[probe.path]
             /\ Ink(TextOf(probe.path)) = {}
  IN failing =>
       /\ IsErr(probe.out)
       /\ probe.out.kind = "LabelsLoadingFailed"
       /\ labels = probe.before

\* A blank text was rejected while a loaded list was active, and the list
\* is still the active one.
C14_Witness ==
  /\ probe.fn = "load_labels_from_content"
  /\ probe.content = <<" ", "\n", " ">>
  /\ IsErr(probe.out)
  /\ probe.before # None
  /\ labels = probe.before
  /\ get_labels = probe.before.val

\* C15: get_label(index) returns get_labels()[index] when index is below
\* the length of the active (or fallback) list and class_<index> otherwise;
\* it returns a name for every index, also when the loaded list is shorter
\* than the number of classes.
C15_GetLabel ==
  probe.fn = "get_label" =>
    /\ probe.index < Len(get_labels) => probe.out = get_labels[probe.index + 1]
    /\ probe.index >= Len(get_labels) => IsClassName(probe.out, probe.index)
    /\ probe.out # <<>>

\* A loaded list shorter than the fallback names was asked for an index
\* past its end, where the fallback list has a name.
C15_Witness ==
  /\ probe.fn = "get_label"
  /\ labels # None
  /\ Len(labels.val) <= probe.index
  /\ probe.index < 15
  /\ IsClassName(probe.out, probe.index)

\* Every outcome in existence: the stored one, the latest returned one, and
\* the ones calls in progress have assembled or returned.
Outcomes ==
  {o.val : o \in {x \in ({lastResult, lastOk} \cup {loc[t].outcome : t \in Threads}) :
                    x # None}}
  \cup {res[t].val : t \in {u \in Threads : IsRun(u) /\ pc[u] = "done" /\ IsOk(res[u])}}

\* C16: in every outcome, total_time_ms is the sum of that outcome's
\* preprocessing, inference and postprocessing times.
C16_TotalIsSum ==
  \A o \in Outcomes :
    o.total_time_ms =
      o.preprocessing_time_ms + o.inference_time_ms + o.postprocessing_time_ms

\* A run has returned an outcome with three different stage times.
C16_Witness ==
  \E t \in Threads :
    /\ IsRun(t) /\ pc[t] = "done" /\ IsOk(res[t])
    /\ res[t].val.preprocessing_time_ms = 1
    /\ res[t].val.inference_time_ms = 2
    /\ res[t].val.postprocessing_time_ms = 3
    /\ res[t].val.total_time_ms = 6
    /\ lastResult = Some(res[t].val)

\* Thread t is between taking the session out of the locked cache and
\* returning: engine run, ranking, assembling and storing the outcome.
Running(t) == pc[t] \in {"R_engine", "R_rank", "R_store", "R_unlock"}

\* A thread whose next step needs the cache lock.
AtCacheLock(u) == pc[u] \in {"L_check", "L_install", "R_lock"}

\* C17: while a run_inference call executes the engine on the cached
\* session, no load_model replaces or releases that session and no other
\* run uses it: an installation or run arriving meanwhile waits until the
\* running call has finished postprocessing and stored its result.
C17_RunExcludes ==
  [][\A t \in Threads :
       Running(t) =>
         /\ cacheLock = t
         /\ cached = loc[t].seen
         /\ cached' = cached
         /\ cached.val \in sessions /\ cached.val \in sessions'
         /\ \A u \in Threads \ {t} :
              /\ ~Running(u)
              /\ AtCacheLock(u) => pc'[u] = pc[u]]_vars

\* A run is about to store its outcome while another thread, which has
\* built the session of a different model, waits to install it.
C17_Witness ==
  \E t, u \in Threads :
    /\ pc[t] = "R_store"
    /\ pc[u] = "L_install"
    /\ op[u].arg # cached.val.path
    /\ cacheLock = t

\* Thread t begins a call in this step.
Begins(t) == calls' = calls + 1 /\ loc'[t].id = calls'

\* C18: run_inference executes its stages in a fixed order, preprocessing,
\* then the run on the cached session, then postprocessing; for bytes that
\* decode to no image it returns InvalidImageData whether the cache is
\* Empty or Loaded, and it does so without taking the session cache lock.
C18_PreprocessFirst ==
  [][\A t \in Threads :
       IsRun(t)' =>
         LET st == loc'[t].stages
         IN /\ st # <<>>
            /\ st = SubSeq(RunStages, 1, Len(st))
            /\ (Begins(t) /\ op'[t].arg = "junk") =>
                 /\ Returned(t)'
                 /\ res'[t] = Err("InvalidImageData", "Failed to load image from bytes")
                 /\ st = <<"preprocess">>
                 /\ cacheLock' = cacheLock /\ cached' = cached
            /\ op'[t].arg = "junk" => st = <<"preprocess">>]_vars

\* A run on undecodable bytes, begun after the other thread's run, has
\* returned InvalidImageData while that run holds the cache lock on a
\* loaded model.
C18_Witness ==
  \E t, u \in Threads :
    /\ IsRun(t) /\ op[t].arg = "junk" /\ pc[t] = "J_store"
    /\ res[t] = Err("InvalidImageData", "Failed to load image from bytes")
    /\ cached # None
    /\ cacheLock = u /\ u # t /\ pc[u] = "R_store"
    /\ loc[u].id < loc[t].id

\* Thread t's load_model returns an error in this step.
LoadFails(t) == IsLoad(t)' /\ pc[t] # "J_store" /\ pc'[t] = "J_store"

\* Thread t's load_model installs its session and returns Ok in this step.
LoadInstalls(t) ==
  IsLoad(t) /\ pc[t] = "L_install" /\ pc'[t] = "done" /\ IsOk(res'[t])

\* C19: a load_model that fails, for whatever reason (file missing, file
\* unreadable, builder failure, bytes that are no model), leaves the cache
\* as it was: a loaded model stays loaded under the same path with its
\* session usable, and an Empty cache stays Empty.
C19_FailedLoadKeepsCache ==
  [][/\ \A t \in Threads :
          LoadFails(t) =>
            /\ cached' = cached
            /\ poisoned' = poisoned
            /\ is_model_loaded' = is_model_loaded
            /\ get_loaded_model_path' = get_loaded_model_path
            /\ cached # None => (cached.val \in sessions /\ cached.val \in sessions')
     /\ cached' # cached => \E t \in Threads : LoadInstalls(t)]_vars

\* A load of bytes that are no model has failed after the same-path check
\* while another model is loaded, and that model is still the loaded one.
C19_Witness ==
  \E t \in Threads :
    /\ IsLoad(t) /\ pc[t] = "J_store"
    /\ res[t] = Err("ModelLoadingFailed", "Failed to load model from memory")
    /\ loc[t].seen # None
    /\ cached = loc[t].seen
    /\ cached.val \in sessions
    /\ is_model_loaded

\* get_label against a given value of the label store.
LabelAt(store, index) ==
  LET ls == LabelsOf(store)
  IN IF index < Len(ls) THEN ls[index + 1] ELSE ClassName(index)

\* Every value the label store takes: nothing loaded, or the list of a
\* label file that loads.
LabelStores ==
  {None} \cup {Some(ParseLabels(TextOf(p))) :
                 p \in {q \in LabelPaths : ParseLabels(TextOf(q)) # <<>>}}

\* C20: the class names in the ranked entries of one outcome all come from
\* one label set: when a label load runs while the entries are being
\* resolved, they are all resolved against the set active before the load or
\* all against the set active after it, never some against each.
C20_NamesFromOneSet ==
  \A o \in Outcomes :
    \E store \in LabelStores :
      \A n \in 1..Len(o.top_predictions) :
        o.top_predictions[n].class_name =
          LabelAt(store, o.top_predictions[n].class_id)

\* Thread t is inside a call that has not returned to the host.
InCall(t) == pc[t] \notin {"idle", "done"}

\* C21: no interleaving of concurrent calls deadlocks: the locks are taken
\* in one order (label and last-result lock only inside the cache lock, the
\* cache lock never inside another), so under fair scheduling, and with an
\* engine call that returns, every call eventually returns to the host.
C21_CallsReturn ==
  \A t \in Threads : InCall(t) ~> (pc[t] = "done")

\* Thread t's entry point calls store_error in this step.
Stores(t) == pc[t] = "J_store" /\ pc'[t] = "done"

\* C22: the last-error state is only overwritten, never cleared: after a
\* store_error, get_last_error() returns the most recently stored message
\* whatever happens later, successful load_model and run_inference calls
\* included, and it returns None only when nothing was ever stored.
C22_ErrorNeverCleared ==
  [][/\ get_last_error # None => get_last_error' # None
     /\ \A t \in Threads :
          Stores(t) => get_last_error' = Some(StoredMessage(op[t].name, res[t]))
     /\ get_last_error' # get_last_error => \E t \in Threads : Stores(t)]_vars

\* The first call, a run on the empty cache, stored its error; the second
\* call loaded a model and the third, a run, succeeded: the message of the
\* first call is still what get_last_error() returns.
C22_Witness ==
  \E t, u \in Threads :
    /\ t # u
    /\ pc[t] = "done" /\ IsRun(t) /\ IsOk(res[t]) /\ loc[t].id = 3
    /\ pc[u] = "done" /\ IsLoad(u) /\ IsOk(res[u]) /\ loc[u].id = 2
    /\ get_last_error = Some(StoredMessage("runInferenceNative", EmptySlotError))

=============================================================================
